---- MODULE Spec2Model ----
(***************************************************************************)
(* A model of the PDF backend of rinohtype: the COS object model and file  *)
(* writer (pyte/backend/pdf/cos.py) and the page/canvas facade             *)
(* (pyte/backend/pdf/__init__.py).                                         *)
(*                                                                         *)
(* Bytes and characters are integers (code points); a byte string is a     *)
(* sequence of them.  A COS value is a record [t, v]: t is the class name  *)
(* and v the payload.  A registered (indirect) object is a record          *)
(* [cls, identifier, generation, body].                                    *)
(***************************************************************************)
EXTENDS Integers, Sequences, FiniteSets, TLC

VARIABLES
    pdf_document,   \* the cos.Document: _identifier, objects, xref_table, pages, catalog
    directs,        \* the values constructed with document=None
    written,        \* one record per cos.Document.write call made so far
    deref,          \* what the last Reference.target / Reference[name] gave
    fonts,          \* backend Document.fonts
    pages,          \* backend Document.pages
    disk,           \* the content of the file filename + '.pdf'
    last,           \* the outcome of the last backend call
    value,          \* String.value
    escaped,        \* what String._bytes returned for it
    code,           \* a glyph's character code (char_metrics ... ['C'])
    char            \* the text show_glyphs puts between the parentheses

vars == <<pdf_document, directs, written, deref,
          fonts, pages, disk, last, value, escaped, code, char>>

cosVars == <<pdf_document, directs, written, deref>>
backendVars == <<fonts, pages, disk, last>>
stringVars == <<value, escaped>>
glyphVars == <<code, char>>

----------------------------------------------------------------------------
(* Bounds of the model *)

MaxObjects == 5      \* registered objects in one cos Document
MaxWrites == 2       \* Document.write calls
MaxDirects == 2      \* values constructed without a document
MaxPages == 2        \* backend pages
MaxCanvases == 1     \* canvases made from one page canvas
MaxShows == 1        \* show_glyphs calls that end on one canvas
MaxStrLen == 3       \* length of a String value
CodesBelowZero == 2  \* glyph codes below 0
MaxCode == 255       \* largest glyph code

----------------------------------------------------------------------------
(* Text: str.encode('utf_8') of literals, int.__str__, float.__str__ *)

None == [t |-> "NoneType"]
NoAttribute == [t |-> "AttributeError"]   \* reading an attribute __init__ never set

ASCII_32_95 == " !\"#$%&'()*+,-./0123456789:;<=>?@ABCDEFGHIJKLMNOPQRSTUVWXYZ[\\]^_"
ASCII_97_126 == "abcdefghijklmnopqrstuvwxyz{|}~"

\* ord(c) for the printable ASCII characters, as a table
OrdTable ==
    [c \in {SubSeq(ASCII_32_95, i, i) : i \in 1..Len(ASCII_32_95)}
            \cup {SubSeq(ASCII_97_126, i, i) : i \in 1..Len(ASCII_97_126)} |->
        IF \E i \in 1..Len(ASCII_32_95) : SubSeq(ASCII_32_95, i, i) = c
        THEN 31 + (CHOOSE i \in 1..Len(ASCII_32_95) : SubSeq(ASCII_32_95, i, i) = c)
        ELSE 96 + (CHOOSE i \in 1..Len(ASCII_97_126) : SubSeq(ASCII_97_126, i, i) = c)]

Ord(c) == OrdTable[c]

\* 'literal'.encode('utf_8') for a printable ASCII literal
B(s) == [i \in 1..Len(s) |-> Ord(SubSeq(s, i, i))]

NL == 10
SP == 32

\* str.encode('utf_8') of a sequence of code points (below 2048)
RECURSIVE Utf8(_)
Utf8(s) ==
    IF s = <<>> THEN <<>>
    ELSE (IF Head(s) < 128 THEN <<Head(s)>>
          ELSE <<192 + (Head(s) \div 64), 128 + (Head(s) % 64)>>) \o Utf8(Tail(s))

RECURSIVE DecDigits(_)
DecDigits(n) ==
    IF n < 10 THEN <<48 + n>> ELSE Append(DecDigits(n \div 10), 48 + (n % 10))

\* int.__str__(self) and '{}'.format(int): the decimal digits.  (This is the
\* int.__str__ of the interpreters the code was written for; since Python 3.8
\* int and float have no __str__ of their own and the call falls back on the
\* subclass's __repr__.)
IntStr(n) == IF n < 0 THEN <<45>> \o DecDigits(0 - n) ELSE DecDigits(n)

\* '{:0wd}'.format(n), n >= 0
ZeroPad(n, w) ==
    LET d == DecDigits(n)
    IN  IF Len(d) >= w THEN d ELSE [i \in 1..(w - Len(d)) |-> 48] \o d

\* float.__str__ of a float with an integral value (below 1e16)
FloatStr(x) == IntStr(x) \o B(".0")

RECURSIVE Concat(_)
Concat(chunks) ==
    IF chunks = <<>> THEN <<>> ELSE Head(chunks) \o Concat(Tail(chunks))

\* sep.join(parts)
RECURSIVE Join(_, _)
Join(sep, parts) ==
    IF parts = <<>> THEN <<>>
    ELSE IF Len(parts) = 1 THEN parts[1]
    ELSE parts[1] \o sep \o Join(sep, Tail(parts))

----------------------------------------------------------------------------
(* COS values (cos.py) *)

Boolean(b) == [t |-> "Boolean", v |-> b]
Integer(n) == [t |-> "Integer", v |-> n]
Real(x) == [t |-> "Real", v |-> x]
String(s) == [t |-> "String", v |-> s]
Name(n) == [t |-> "Name", v |-> n]
Array(items) == [t |-> "Array", v |-> items]
Dictionary(items) == [t |-> "Dictionary", v |-> items]
Stream(payload) == [t |-> "Stream", v |-> payload]
Reference(id, gen) == [t |-> "Reference", v |-> <<id, gen>>]

\* OrderedDict.__contains__, __getitem__, __setitem__ (a new key goes last, an
\* existing key keeps its place)
HasKey(d, key) == \E i \in 1..Len(d.v) : d.v[i].k = key
GetItem(d, key) == d.v[CHOOSE i \in 1..Len(d.v) : d.v[i].k = key].val
SetItem(d, key, val) ==
    IF HasKey(d, key)
    THEN [d EXCEPT !.v = [i \in 1..Len(d.v) |->
                            IF d.v[i].k = key THEN [k |-> key, val |-> val]
                            ELSE d.v[i]]]
    ELSE [d EXCEPT !.v = Append(d.v, [k |-> key, val |-> val])]

\* str.replace(old, new) for a one-character old
RECURSIVE Replace(_, _, _)
Replace(s, old, new) ==
    IF s = <<>> THEN <<>>
    ELSE (IF Head(s) = old THEN new ELSE <<Head(s)>>) \o Replace(Tail(s), old, new)

\* String._bytes: the escapes, then the three characters of '\\()', then the
\* parentheses around it
StringEscape(s) ==
    LET e1 == Replace(s, 10, <<92, 110>>)       \* '\n' -> r'\n'
        e2 == Replace(e1, 13, <<92, 114>>)      \* '\r' -> r'\r'
        e3 == Replace(e2, 9, <<92, 116>>)       \* '\t' -> r'\t'
        e4 == Replace(e3, 8, <<92, 98>>)        \* '\b' -> r'\b'
        e5 == Replace(e4, 12, <<92, 102>>)      \* '\f' -> r'\f'
        e6 == Replace(e5, 92, <<92, 92>>)       \* for char in '\\()'
        e7 == Replace(e6, 40, <<92, 40>>)
        e8 == Replace(e7, 41, <<92, 41>>)
    IN  e8

StringBytes(s) == Utf8(<<40>> \o StringEscape(s) \o <<41>>)

\* Reference.bytes
ReferenceBytes(r) == IntStr(r.v[1]) \o <<SP>> \o IntStr(r.v[2]) \o B(" R")

\* Object.bytes of a direct value (its _bytes) or of a Reference held in a
\* container
RECURSIVE bytes(_)
bytes(x) ==
    CASE x.t = "Reference" -> ReferenceBytes(x)
      [] x.t = "Boolean" -> IF x.v THEN B("true") ELSE B("false")
      [] x.t = "Integer" -> IntStr(x.v)
      [] x.t = "Real" -> FloatStr(x.v)
      [] x.t = "String" -> StringBytes(x.v)
      [] x.t = "Name" -> B("/") \o B(x.v)
      [] x.t = "Array" ->
            B("[") \o Join(<<SP>>, [i \in 1..Len(x.v) |-> bytes(x.v[i])]) \o B("]")
      [] x.t = "Dictionary" ->
            B("<< ")
            \o Join(<<SP>>, [i \in 1..Len(x.v) |->
                               bytes(Name(x.v[i].k)) \o <<SP>> \o bytes(x.v[i].val)])
            \o B(" >>")
      [] x.t = "Stream" ->
            bytes(Dictionary(<<[k |-> "Length", val |-> Integer(Len(x.v))]>>))
            \o <<NL>> \o B("stream") \o <<NL>> \o x.v \o <<NL>> \o B("endstream")

\* Object.indirect_bytes
indirect_bytes(obj) ==
    IntStr(obj.identifier) \o <<SP>> \o IntStr(obj.generation) \o B(" obj") \o <<NL>>
    \o bytes(obj.body) \o <<NL>> \o B("endobj")

----------------------------------------------------------------------------
(* Object identity and registration (cos.py, Object and Document) *)

PDF_VERSION == "1.4"

\* a next_identifier that returns the counter as it was before the increment
MutNextIdentifier(doc) ==
    [_identifier |-> doc._identifier + 1, result |-> doc._identifier]

\* Document.next_identifier: the counter goes up by one and its new value is
\* returned
next_identifier(doc) ==
    [_identifier |-> doc._identifier + 1, result |-> doc._identifier + 1]

\* Document.append
append(doc, obj) == [doc EXCEPT !.objects = Append(@, obj)]

\* Object.__init__ with a document: the identifier, the registration, the
\* reference.  The subclass fills the body afterwards; an object is known by
\* its place in doc.objects.
ObjectInit(doc, cls, body) ==
    LET n == next_identifier(doc)
        obj == [cls |-> cls, identifier |-> n.result, generation |-> 0,
                reference |-> Reference(n.result, 0), body |-> body]
    IN  append([doc EXCEPT !._identifier = n._identifier], obj)

\* Object.__init__ with document=None; Null.__init__ sets nothing at all
DirectInit(cls) ==
    [cls |-> cls, identifier |-> IF cls = "Null" THEN NoAttribute ELSE None]

Item(key, val) == [k |-> key, val |-> val]

\* Pages.__init__, Catalog.__init__, Font.__init__: the keys set at construction
PagesBody ==
    Dictionary(<<Item("Type", Name("Pages")), Item("Count", Integer(0)),
                 Item("Kids", Array(<<>>))>>)
CatalogBody == Dictionary(<<Item("Type", Name("Catalog"))>>)
FontBody == Dictionary(<<Item("Type", Name("Font"))>>)

\* Page.__init__
PageBody(parent, width, height) ==
    Dictionary(<<Item("Type", Name("Page")),
                 Item("Parent", parent.reference),
                 Item("Resources", Dictionary(<<>>)),
                 Item("MediaBox", Array(<<Integer(0), Integer(0),
                                          Real(width), Real(height)>>))>>)

\* Document.__init__
DocumentInit ==
    LET d0 == [_identifier |-> 0, objects |-> <<>>, xref_table |-> <<>>,
               pages |-> 0, catalog |-> 0]
        d1 == [ObjectInit(d0, "Pages", PagesBody) EXCEPT !.pages = 1]
        d2 == [ObjectInit(d1, "Catalog", CatalogBody) EXCEPT !.catalog = 2]
    IN  [d2 EXCEPT !.objects[d2.catalog].body =
                       SetItem(@, "Pages", d2.objects[d2.pages].reference)]

\* a new_page that appends the reference to Kids and leaves Count as it was
MutNewPage(doc, width, height) ==
    LET d1 == ObjectInit(doc, "Page",
                         PageBody(doc.objects[doc.pages], width, height))
        page == d1.objects[Len(d1.objects)]
        body == d1.objects[doc.pages].body
        kids == Array(Append(GetItem(body, "Kids").v, page.reference))
    IN  [d1 EXCEPT !.objects[doc.pages].body = SetItem(body, "Kids", kids)]

\* Pages.new_page: the Page is registered, its reference appended to Kids,
\* Count replaced by Count + 1.  The new page is the last of doc.objects.
new_page(doc, width, height) ==
    LET d1 == ObjectInit(doc, "Page",
                         PageBody(doc.objects[doc.pages], width, height))
        page == d1.objects[Len(d1.objects)]
        body == d1.objects[doc.pages].body
        kids == Array(Append(GetItem(body, "Kids").v, page.reference))
        b1 == SetItem(body, "Kids", kids)
        b2 == SetItem(b1, "Count", Integer(GetItem(b1, "Count").v + 1))
    IN  [d1 EXCEPT !.objects[doc.pages].body = b2]

----------------------------------------------------------------------------
(* The writer (cos.py, Document.write and XRefTable) *)

\* The file passed to write: the write calls that succeeded on it and
\* file.tell().  The fail_at-th call of file.write raises OSError (0: none
\* does); once an exception is raised nothing more of the writer runs.
NewFile(fail_at) == [calls |-> <<>>, pos |-> 0, fail_at |-> fail_at, raised |-> ""]
file_write(file, data) ==
    IF file.raised # "" THEN file
    ELSE IF Len(file.calls) + 1 = file.fail_at THEN [file EXCEPT !.raised = "OSError"]
    ELSE [file EXCEPT !.calls = Append(@, data), !.pos = @ + Len(data)]
tell(file) == file.pos

\* out(string) of Document.write
out(file, string) == file_write(file, string \o <<NL>>)

\* XRefTable.append: the object (its place in doc.objects) and its address
XRefAppend(xref, obj, address) == Append(xref, [obj |-> obj, address |-> address])

\* XRefTable.__len__
XRefLen(xref) == Len(xref) + 1

\* XRefTable.__str__ and XRefTable.bytes
XRefBytes(xref, objs) ==
    B("xref") \o <<NL>> \o B("0 ") \o IntStr(Len(xref) + 1)
    \o <<NL>> \o B("0000000000 65535 f ")
    \o Concat([i \in 1..Len(xref) |->
                 <<NL>> \o ZeroPad(xref[i].address, 10) \o <<SP>>
                 \o ZeroPad(objs[xref[i].obj].generation, 5) \o B(" n ")])

BinaryMarker == <<37, 220, 225, 216, 183, 10>>

\* the loop over self.objects of Document.write, from object i on
RECURSIVE WriteObjects(_, _, _)
WriteObjects(doc, i, file) ==
    IF i > Len(doc.objects) \/ file.raised # "" THEN [doc |-> doc, file |-> file]
    ELSE WriteObjects([doc EXCEPT !.xref_table = XRefAppend(@, i, tell(file))],
                      i + 1, out(file, indirect_bytes(doc.objects[i])))

\* Document.write(file)
DocumentWrite(doc, file) ==
    LET f1 == out(file, B("%PDF-") \o B(PDF_VERSION))
        f2 == file_write(f1, BinaryMarker)
        r == WriteObjects(doc, 1, f2)
        xref_table_address == tell(r.file)
        f3 == out(r.file, XRefBytes(r.doc.xref_table, r.doc.objects))
        f4 == out(f3, B("trailer"))
        trailer_dict ==
            Dictionary(<<Item("Size", Integer(XRefLen(r.doc.xref_table))),
                         Item("Root", doc.objects[doc.catalog].reference)>>)
        f5 == out(f4, bytes(trailer_dict))
        f6 == out(f5, B("startxref"))
        f7 == out(f6, IntStr(xref_table_address))
        f8 == out(f7, B("%%EOF"))
    IN  [doc |-> r.doc, file |-> f8]

----------------------------------------------------------------------------
(* References (cos.py, Reference) *)

\* self.document.get_indirect_object(identifier, generation): Document defines
\* no such method, so the attribute lookup raises AttributeError
get_indirect_object(doc, id, gen) == [raised |-> "AttributeError", result |-> None]

\* Reference.target: "except Exception: pass" falls through to return None
target(doc, ref) ==
    LET r == get_indirect_object(doc, ref.v[1], ref.v[2])
    IN  IF r.raised # "" THEN None ELSE r.result

\* Reference.__getitem__: self.target[name]
ReferenceGetItem(doc, ref, name) ==
    LET t == target(doc, ref)
    IN  IF t = None THEN [raised |-> "TypeError", result |-> None]
        ELSE IF ~HasKey(t.body, name) THEN [raised |-> "KeyError", result |-> None]
        ELSE [raised |-> "", result |-> GetItem(t.body, name)]

----------------------------------------------------------------------------
(* The COS layer used directly: constructions, writes, dereferences *)

PageSizes == {<<200, 200>>, <<595, 842>>}
Payloads == {<<>>, B("q") \o <<NL>> \o B("Q") \o <<NL>>}
DirectClasses == {"Boolean", "Name", "Dictionary", "Null"}

NoDeref == [obj |-> 0]

InitCos ==
    /\ pdf_document = DocumentInit
    /\ directs = {}
    /\ written = <<>>
    /\ deref = NoDeref

\* pdf_document.pages.new_page(width, height)
NewPage ==
    /\ Len(pdf_document.objects) < MaxObjects
    /\ \E size \in PageSizes :
          pdf_document' = new_page(pdf_document, size[1], size[2])
    /\ UNCHANGED <<directs, written, deref, backendVars, stringVars, glyphVars>>

\* cos.Font(document)
NewFont ==
    /\ Len(pdf_document.objects) < MaxObjects
    /\ pdf_document' = ObjectInit(pdf_document, "Font", FontBody)
    /\ UNCHANGED <<directs, written, deref, backendVars, stringVars, glyphVars>>

\* cos.Dictionary(document)
NewDictionary ==
    /\ Len(pdf_document.objects) < MaxObjects
    /\ pdf_document' = ObjectInit(pdf_document, "Dictionary", Dictionary(<<>>))
    /\ UNCHANGED <<directs, written, deref, backendVars, stringVars, glyphVars>>

\* cos.Stream(document) and the write of its payload
NewStream ==
    /\ Len(pdf_document.objects) < MaxObjects
    /\ \E payload \in Payloads :
          pdf_document' = ObjectInit(pdf_document, "Stream", Stream(payload))
    /\ UNCHANGED <<directs, written, deref, backendVars, stringVars, glyphVars>>

\* a value constructed with no document
NewDirect ==
    /\ Cardinality(directs) < MaxDirects
    /\ \E cls \in DirectClasses : directs' = directs \cup {DirectInit(cls)}
    /\ UNCHANGED <<pdf_document, written, deref, backendVars, stringVars, glyphVars>>

\* what is kept of one call of Document.write: the bytes the file holds, the
\* objects registered at the call, len(xref_table) after it, what it raised
WriteRecord(doc, w) ==
    [out |-> Concat(w.file.calls), objects |-> doc.objects, catalog |-> doc.catalog,
     xref_len |-> XRefLen(w.doc.xref_table), raised |-> w.file.raised]

\* pdf_document.write(file) on a new file (a BytesIO: no write fails)
Write ==
    /\ Len(written) < MaxWrites
    /\ LET w == DocumentWrite(pdf_document, NewFile(0))
       IN  /\ pdf_document' = w.doc
           /\ written' = Append(written, WriteRecord(pdf_document, w))
    /\ UNCHANGED <<directs, deref, backendVars, stringVars, glyphVars>>

\* obj.reference.target and obj.reference['Type'] for a registered obj
Deref ==
    /\ \E i \in 1..Len(pdf_document.objects) :
          LET ref == pdf_document.objects[i].reference
          IN  deref' = [obj |-> i,
                        target |-> target(pdf_document, ref),
                        item |-> ReferenceGetItem(pdf_document, ref, "Type")]
    /\ UNCHANGED <<pdf_document, directs, written, backendVars, stringVars, glyphVars>>

----------------------------------------------------------------------------
(* The facade (__init__.py): backend Document and Page, font registration *)

\* Fonts as the backend sees them: font.psFont.ps_name and font.is_core()
Helvetica == [ps_name |-> "Helvetica", is_core |-> TRUE]
TimesRoman == [ps_name |-> "Times-Roman", is_core |-> TRUE]
Embedded == [ps_name |-> "Embedded", is_core |-> FALSE]
Fonts == {Helvetica, TimesRoman, Embedded}

NoFonts == [f \in {} |-> 0]

\* Canvas.translate(x, y): print('1 0 0 1 {} {} cm'.format(x, y), file=self)
translate(buffer, x, y) ==
    buffer \o B("1 0 0 1 ") \o IntStr(x) \o <<SP>> \o IntStr(y) \o B(" cm") \o <<NL>>

\* Canvas.__init__(parent, left, bottom, width, height): an empty StringIO,
\* then translate(left, bottom)
CanvasInit(left, bottom) == translate(<<>>, left, bottom)

\* backend Page.__init__: the cos Page, the page canvas, the entry in
\* document.pages, the font counter and the alias cache.  canvases are the
\* canvases made by page.canvas.new(...).
BackendPageInit(doc, width, height) ==
    LET d1 == new_page(doc, width, height)
    IN  [doc |-> d1,
         page |-> [pdf_page |-> Len(d1.objects), width |-> width, height |-> height,
                   canvas |-> CanvasInit(0, 0), canvases |-> <<>>,
                   font_number |-> 1, font_names |-> NoFonts]]

\* a register_font that never finds the font in the cache
MutDocumentRegisterFont(doc, cache, font) ==
    IF ~font.is_core
    THEN [raised |-> "AssertionError", doc |-> doc, fonts |-> cache, font_rsc |-> 0]
    ELSE LET d1 == ObjectInit(doc, "Font", FontBody)
             rsc == Len(d1.objects)
             b1 == SetItem(d1.objects[rsc].body, "Subtype", Name("Type1"))
             b2 == SetItem(b1, "BaseFont", Name(font.ps_name))
         IN  [raised |-> "",
              doc |-> [d1 EXCEPT !.objects[rsc].body = b2],
              fonts |-> (font :> rsc) @@ cache,
              font_rsc |-> rsc]

\* backend Document.register_font(font)
DocumentRegisterFont(doc, cache, font) ==
    IF font \in DOMAIN cache
    THEN [raised |-> "", doc |-> doc, fonts |-> cache, font_rsc |-> cache[font]]
    ELSE IF ~font.is_core
    THEN [raised |-> "AssertionError", doc |-> doc, fonts |-> cache, font_rsc |-> 0]
    ELSE LET d1 == ObjectInit(doc, "Font", FontBody)
             rsc == Len(d1.objects)
             b1 == SetItem(d1.objects[rsc].body, "Subtype", Name("Type1"))
             b2 == SetItem(b1, "BaseFont", Name(font.ps_name))
         IN  [raised |-> "",
              doc |-> [d1 EXCEPT !.objects[rsc].body = b2],
              fonts |-> (font :> rsc) @@ cache,
              font_rsc |-> rsc]

\* 'F{}'.format(self.font_number)
FontName(n) == "F" \o ToString(n)

\* backend Page.register_font(font)
PageRegisterFont(doc, cache, page, font) ==
    IF font \in DOMAIN page.font_names
    THEN [raised |-> "", doc |-> doc, fonts |-> cache, page |-> page,
          name |-> page.font_names[font]]
    ELSE LET r == DocumentRegisterFont(doc, cache, font)
             name == FontName(page.font_number)
             pdf_page == r.doc.objects[page.pdf_page].body
             page_rsc == GetItem(pdf_page, "Resources")
             \* page_rsc.setdefault('Font', cos.Dictionary())
             rsc1 == IF HasKey(page_rsc, "Font") THEN page_rsc
                     ELSE SetItem(page_rsc, "Font", Dictionary(<<>>))
             fonts_dict == SetItem(GetItem(rsc1, "Font"), name,
                                   r.doc.objects[r.font_rsc].reference)
             rsc2 == SetItem(rsc1, "Font", fonts_dict)
         IN  IF r.raised # ""
             THEN [raised |-> r.raised, doc |-> doc, fonts |-> cache, page |-> page,
                   name |-> ""]
             ELSE [raised |-> "",
                   doc |-> [r.doc EXCEPT !.objects[page.pdf_page].body =
                                             SetItem(pdf_page, "Resources", rsc2)],
                   fonts |-> r.fonts,
                   page |-> [page EXCEPT !.font_number = @ + 1,
                                         !.font_names = (font :> name) @@ @],
                   name |-> name]

NoFile == [exists |-> FALSE, data |-> <<>>]
NoCall == [op |-> "", raised |-> ""]

InitBackend ==
    /\ fonts = NoFonts
    /\ pages = <<>>
    /\ disk = NoFile
    /\ last = NoCall

\* Page(pyte_page, document, width, height)
NewBackendPage ==
    /\ Len(pages) < MaxPages
    /\ \E size \in PageSizes :
          LET r == BackendPageInit(pdf_document, size[1], size[2])
          IN  /\ pdf_document' = r.doc
              /\ pages' = Append(pages, r.page)
    /\ last' = [op |-> "Page", raised |-> ""]
    /\ UNCHANGED <<fonts, disk, directs, written, deref, stringVars, glyphVars>>

\* page.register_font(font)
RegisterFont ==
    /\ \E p \in 1..Len(pages), font \in Fonts :
          LET r == PageRegisterFont(pdf_document, fonts, pages[p], font)
          IN  /\ pdf_document' = r.doc
              /\ fonts' = r.fonts
              /\ pages' = [pages EXCEPT ![p] = r.page]
              /\ last' = [op |-> "register_font", raised |-> r.raised,
                          page |-> p, font |-> font, name |-> r.name]
    /\ UNCHANGED <<disk, directs, written, deref, stringVars, glyphVars>>

----------------------------------------------------------------------------
(* Canvases and show_glyphs (__init__.py, Canvas) *)

\* font.psFont.metrics.FontMetrics["Direction"][0]["CharMetrics"].by_glyph_name
\* of the font-metrics provider: a few entries of a core font's table ('fi'
\* is not encoded: C -1)
CharMetrics ==
    [g \in {"A", "B", "parenleft", "backslash", "Adieresis", "fi"} |->
        CASE g = "A" -> [C |-> 65, W0X |-> 722]
          [] g = "B" -> [C |-> 66, W0X |-> 667]
          [] g = "parenleft" -> [C |-> 40, W0X |-> 333]
          [] g = "backslash" -> [C |-> 92, W0X |-> 278]
          [] g = "Adieresis" -> [C |-> 196, W0X |-> 722]
          [] g = "fi" -> [C |-> 0 - 1, W0X |-> 556]]

\* '\{:03d}'.format(code): the backslash, then the code in decimal, zero-padded
\* to three digits
CodeEscape(c) == <<92>> \o ZeroPad(c, 3)

\* lines 160-167 of show_glyphs: the character for a code
GlyphChar(c) ==
    IF c < 0 THEN <<63>>
    ELSE IF c > 127 THEN CodeEscape(c)
    ELSE IF c \in {92, 40, 41} THEN <<92, c>>
    ELSE <<c>>

\* int(x) of the quotient a / b, b > 0: towards zero
TruncDiv(a, b) == IF a >= 0 THEN a \div b ELSE 0 - ((0 - a) \div b)

\* int(width - (1000 * displ) / size)
Adjustment(width, displ, size) == TruncDiv(width * size - 1000 * displ, size)

\* the loop of show_glyphs over zip(glyphs, x_displacements), from pair i on:
\* zip stops at the end of the shorter sequence
RECURSIVE GlyphLoop(_, _, _, _, _)
GlyphLoop(glyphs, x_displacements, size, i, string) ==
    IF i > Len(glyphs) \/ i > Len(x_displacements)
    THEN [raised |-> "", string |-> string]
    ELSE IF size = 0 THEN [raised |-> "ZeroDivisionError", string |-> string]
    ELSE IF glyphs[i] \notin DOMAIN CharMetrics
    THEN [raised |-> "KeyError", string |-> string]
    ELSE LET m == CharMetrics[glyphs[i]]
         IN  GlyphLoop(glyphs, x_displacements, size, i + 1,
                       string \o B("(") \o GlyphChar(m.C) \o B(") ")
                       \o IntStr(Adjustment(m.W0X, x_displacements[i], size))
                       \o <<SP>>)

\* the five print calls that end show_glyphs
ShowText(buffer, font_name, x, y, size, string) ==
    buffer \o B("BT") \o <<NL>>
    \o B("/") \o B(font_name) \o <<SP>> \o IntStr(size) \o B(" Tf") \o <<NL>>
    \o IntStr(x) \o <<SP>> \o IntStr(y) \o B(" Td") \o <<NL>>
    \o B("[ ") \o string \o B("] TJ") \o <<NL>>
    \o B("ET") \o <<NL>>

\* canvas.show_glyphs(x, y, font, size, glyphs, x_displacements) for canvas c
\* of the page: 0 is the page canvas itself, whose pdf_page property raises
\* AttributeError (its parent, the backend Page, has no attribute 'page');
\* c >= 1 is a canvas made by page.canvas.new(...)
show_glyphs(doc, cache, page, c, x, y, font, size, glyphs, x_displacements) ==
    LET loop == GlyphLoop(glyphs, x_displacements, size, 1, <<>>)
        reg == PageRegisterFont(doc, cache, page, font)
        same == [doc |-> doc, fonts |-> cache, page |-> page]
    IN  IF loop.raised # "" THEN [raised |-> loop.raised] @@ same
        ELSE IF c = 0 THEN [raised |-> "AttributeError"] @@ same
        ELSE IF reg.raised # "" THEN [raised |-> reg.raised] @@ same
        ELSE [raised |-> "", doc |-> reg.doc, fonts |-> reg.fonts,
              page |-> [reg.page EXCEPT !.canvases[c] =
                           ShowText(@, reg.name, x, y, size, loop.string)]]

\* the show_glyphs calls that ran to their end on a canvas: its ET lines
Shows(buffer) ==
    Cardinality({i \in 1..Len(buffer) - 2 :
                    buffer[i] = 69 /\ buffer[i + 1] = 84 /\ buffer[i + 2] = NL})

Origins == {<<72, 720>>}
TextFonts == {Helvetica, Embedded}
Sizes == {12}
GlyphSeqs == {<<>>, <<"A">>, <<"fi", "Adieresis">>, <<"nosuchglyph">>}
Displacements == {<<>>, <<0>>, <<1, 5>>}

\* page.canvas.new(left, bottom, width, height)
NewCanvas ==
    /\ \E p \in 1..Len(pages), o \in Origins :
          /\ Len(pages[p].canvases) < MaxCanvases
          /\ pages' = [pages EXCEPT ![p].canvases = Append(@, CanvasInit(o[1], o[2]))]
    /\ last' = [op |-> "new", raised |-> ""]
    /\ UNCHANGED <<pdf_document, fonts, disk, directs, written, deref, stringVars, glyphVars>>

\* canvas.show_glyphs(x, y, font, size, glyphs, x_displacements)
ShowGlyphs ==
    /\ \E p \in 1..Len(pages) :
       \E c \in 0..Len(pages[p].canvases), font \in TextFonts, size \in Sizes,
          glyphs \in GlyphSeqs, x_displacements \in Displacements :
          /\ c > 0 => Shows(pages[p].canvases[c]) < MaxShows
          /\ \E r \in {show_glyphs(pdf_document, fonts, pages[p], c, 10, 20, font,
                                   size, glyphs, x_displacements)} :
                /\ pdf_document' = r.doc
                /\ fonts' = r.fonts
                /\ pages' = [pages EXCEPT ![p] = r.page]
                /\ \E before \in {IF c = 0 THEN pages[p].canvas
                                   ELSE pages[p].canvases[c]},
                      after \in {IF c = 0 THEN r.page.canvas
                                  ELSE r.page.canvases[c]} :
                      last' = [op |-> "show_glyphs", raised |-> r.raised,
                               glyphs |-> Len(glyphs),
                               x_displacements |-> Len(x_displacements),
                               appended |-> SubSeq(after, Len(before) + 1,
                                                   Len(after))]
    /\ UNCHANGED <<disk, directs, written, deref, stringVars, glyphVars>>

----------------------------------------------------------------------------
(* backend Document.write (__init__.py) *)

\* the loop over self.pages: each page canvas becomes a new Stream, the page's
\* Contents its reference
RECURSIVE WrapPages(_, _, _)
WrapPages(doc, pgs, i) ==
    IF i > Len(pgs) THEN doc
    ELSE LET d1 == ObjectInit(doc, "Stream", Stream(Utf8(pgs[i].canvas)))
             contents == d1.objects[Len(d1.objects)]
         IN  WrapPages([d1 EXCEPT !.objects[pgs[i].pdf_page].body =
                                     SetItem(@, "Contents", contents.reference)],
                       pgs, i + 1)

\* backend Document.write(filename): open(..., 'wb') leaves the file empty,
\* every write call that succeeded is in it when the file object is closed or
\* finalized
BackendWrite(doc, pgs, fail_at) ==
    LET d1 == WrapPages(doc, pgs, 1)
        w == DocumentWrite(d1, NewFile(fail_at))
    IN  [raised |-> w.file.raised, doc |-> w.doc,
         disk |-> [exists |-> TRUE, data |-> Concat(w.file.calls)],
         written |-> WriteRecord(d1, w)]

\* the file.write calls of one cos write of n objects: header, marker, the
\* objects, xref, 'trailer', the dictionary, 'startxref', the address, '%%EOF'
WriteCalls(n) == n + 8

\* document.write(filename); the environment lets every file.write succeed
\* (fail_at = 0) or fails one of them
WriteFile ==
    /\ Len(written) < MaxWrites
    /\ \E fail_at \in 0..WriteCalls(Len(pdf_document.objects) + Len(pages)) :
          LET r == BackendWrite(pdf_document, pages, fail_at)
          IN  /\ pdf_document' = r.doc
              /\ disk' = r.disk
              /\ written' = Append(written, r.written)
              /\ last' = [op |-> "write", raised |-> r.raised, before |-> disk]
    /\ UNCHANGED <<fonts, pages, directs, deref, stringVars, glyphVars>>

----------------------------------------------------------------------------
(* String._bytes and the glyph character of show_glyphs, applied to inputs *)

Alphabet == {10, 13, 9, 40, 41, 92, 110, 97}   \* \n \r \t ( ) \ n a

RECURSIVE StringsUpTo(_)
StringsUpTo(n) ==
    IF n = 0 THEN {<<>>}
    ELSE LET shorter == StringsUpTo(n - 1)
         IN  shorter \cup {Append(s, c) : s \in shorter, c \in Alphabet}

\* String(value)._bytes()
Escape ==
    /\ escaped = <<>>
    /\ escaped' = StringBytes(value)
    /\ UNCHANGED <<value, cosVars, backendVars, glyphVars>>

\* show_glyphs' character for a glyph of the given code
MapGlyph ==
    /\ char = <<>>
    /\ char' = GlyphChar(code)
    /\ UNCHANGED <<code, cosVars, backendVars, stringVars>>

----------------------------------------------------------------------------
(* Specifications *)

InitRest == value = <<>> /\ escaped = <<>> /\ code = 0 /\ char = <<>>

Init == InitCos /\ InitBackend /\ InitRest

\* the COS layer: constructions and writes
Next == NewPage \/ NewFont \/ NewDictionary \/ NewStream \/ Write
Spec == Init /\ [][Next]_vars

\* the COS layer: constructions, with and without a document, and references
NextObjects == NewPage \/ NewFont \/ NewDictionary \/ NewStream \/ NewDirect \/ Deref
SpecObjects == Init /\ [][NextObjects]_vars

\* the facade: pages and font registration
NextFonts == NewBackendPage \/ RegisterFont
SpecFonts == Init /\ [][NextFonts]_vars

\* the facade: pages and writes to a file
NextWrite == NewBackendPage \/ WriteFile
SpecWrite == Init /\ [][NextWrite]_vars

\* the facade: pages, canvases and text
NextCanvas == NewBackendPage \/ NewCanvas \/ ShowGlyphs
SpecCanvas == Init /\ [][NextCanvas]_vars

\* String._bytes on every string up to MaxStrLen
InitString ==
    /\ InitCos /\ InitBackend /\ code = 0 /\ char = <<>>
    /\ value \in StringsUpTo(MaxStrLen)
    /\ escaped = <<>>
SpecString == InitString /\ [][Escape]_vars

\* the glyph character for every code
InitGlyph ==
    /\ InitCos /\ InitBackend /\ value = <<>> /\ escaped = <<>>
    /\ code \in (0 - CodesBelowZero)..MaxCode
    /\ char = <<>>
SpecGlyph == InitGlyph /\ [][MapGlyph]_vars

----------------------------------------------------------------------------
(* Reading a written file back, as a reader of the format does *)

\* the offsets at which a line starts
LineStarts(data) == {0} \cup {p \in 1..Len(data) - 1 : data[p] = NL}

StartsWith(data, p, prefix) ==
    /\ p + Len(prefix) <= Len(data)
    /\ SubSeq(data, p + 1, p + Len(prefix)) = prefix

\* the offsets of the lines that are exactly `line`
LinesEqual(data, line) ==
    {p \in LineStarts(data) : StartsWith(data, p, line \o <<NL>>)}

\* the offset just after the line that starts at p
NextLine(data, p) ==
    1 + CHOOSE e \in p..Len(data) - 1 :
            data[e + 1] = NL /\ \A j \in p + 1..e : data[j] # NL

IsDigit(b) == b >= 48 /\ b <= 57

\* the decimal number that starts at offset p
RECURSIVE ReadInt(_, _, _)
ReadInt(data, p, acc) ==
    IF p < Len(data) /\ IsDigit(data[p + 1])
    THEN ReadInt(data, p + 1, 10 * acc + (data[p + 1] - 48))
    ELSE acc

\* where the 'id gen obj' line of an object starts
ObjectOffsets(data, id, gen) ==
    LinesEqual(data, IntStr(id) \o <<SP>> \o IntStr(gen) \o B(" obj"))

\* the xref table: its offset, the N of its '0 N' line, its entry for object id
\* (every entry is 20 bytes long)
XRefOffset(data) == CHOOSE p \in LinesEqual(data, B("xref")) : TRUE
XRefCount(data) == ReadInt(data, NextLine(data, XRefOffset(data)) + 2, 0)
XRefEntry(data, id) ==
    ReadInt(data, NextLine(data, NextLine(data, XRefOffset(data))) + 20 * id, 0)

\* the Size of the trailer dictionary
TrailerSize(data) ==
    LET p == NextLine(data, CHOOSE q \in LinesEqual(data, B("trailer")) : TRUE)
    IN  ReadInt(data, p + Len(B("<< /Size ")), 0)

\* the reader's unescape of a string body: backslash-n, -r, -t, -b, -f, and a
\* backslash before any other character stands for that character
RECURSIVE Unescape(_)
Unescape(s) ==
    IF s = <<>> THEN <<>>
    ELSE IF Head(s) = 92 /\ Len(s) >= 2
    THEN <<CASE s[2] = 110 -> 10
             [] s[2] = 114 -> 13
             [] s[2] = 116 -> 9
             [] s[2] = 98 -> 8
             [] s[2] = 102 -> 12
             [] OTHER -> s[2]>> \o Unescape(Tail(Tail(s)))
    ELSE <<Head(s)>> \o Unescape(Tail(s))

\* '{:03o}'.format(code): three octal digits
Octal3(c) == <<48 + (c \div 64), 48 + ((c \div 8) % 8), 48 + (c % 8)>>

Completed == {i \in 1..Len(written) : written[i].raised = ""}

----------------------------------------------------------------------------
(* Claims *)

\* C1: two writes of a Document with nothing changed in between give the
\* same bytes.
C1_Determinism ==
    \A i \in Completed :
        (i + 1 \in Completed /\ written[i + 1].objects = written[i].objects)
            => written[i + 1].out = written[i].out

\* C2: in the output of every write, the xref entry of every registered
\* object holds the offset at which that object's 'k gen obj' line starts.
C2_OffsetAccuracy ==
    \A i \in Completed :
        \A k \in 1..Len(written[i].objects) :
            ObjectOffsets(written[i].out, written[i].objects[k].identifier,
                          written[i].objects[k].generation)
                = {XRefEntry(written[i].out, k)}

\* C3: after every write the xref table's entry count, the N of its '0 N'
\* line and the trailer's Size are the number of registered objects plus 1.
C3_XRefRebuilt ==
    \A i \in Completed :
        /\ written[i].xref_len = Len(written[i].objects) + 1
        /\ XRefCount(written[i].out) = Len(written[i].objects) + 1
        /\ TrailerSize(written[i].out) = Len(written[i].objects) + 1

\* C4: the registered objects have the identifiers 1..N, the i-th of them
\* identifier i; a value constructed without a document has no identifier and
\* is not in the registry.
C4_IdentifierMonotonicity ==
    /\ pdf_document._identifier = Len(pdf_document.objects)
    /\ \A i \in 1..Len(pdf_document.objects) :
          /\ pdf_document.objects[i].identifier = i
          /\ pdf_document.objects[i].reference = Reference(i, 0)
    /\ \A d \in directs :
          /\ d.identifier \in {None, NoAttribute}
          /\ \A i \in 1..Len(pdf_document.objects) : pdf_document.objects[i] # d

\* C4's case: pages, a font and a stream are registered after the Pages and
\* the Catalog, and values were constructed without a document
C4_Witness ==
    /\ Len(pdf_document.objects) >= 5
    /\ {"Pages", "Catalog", "Page", "Font", "Stream"}
          \subseteq {pdf_document.objects[i].cls : i \in 1..Len(pdf_document.objects)}
    /\ Cardinality(directs) >= 2

\* C5: unescaping what String._bytes puts between the parentheses gives the
\* string back.
C5_EscapeRoundTrip ==
    escaped # <<>> => Unescape(SubSeq(escaped, 2, Len(escaped) - 1)) = value

\* C6: a glyph code above 127 is written as a backslash and the code's three
\* octal digits; a code below 0 as '?'; a code 0..127 as its ASCII character,
\* with backslash and the parentheses escaped.
C6_GlyphOctal ==
    char # <<>> =>
        char = (IF code < 0 THEN <<63>>
                ELSE IF code > 127 THEN <<92>> \o Octal3(code)
                ELSE IF code \in {92, 40, 41} THEN <<92, code>>
                ELSE <<code>>)

\* C7: the target of a registered value's reference is the value itself, and
\* item access on the reference gives what item access on the value gives.
C7_ReferenceResolution ==
    deref.obj # 0 =>
        LET obj == pdf_document.objects[deref.obj]
        IN  /\ deref.target = obj
            /\ (obj.body.t = "Dictionary" /\ HasKey(obj.body, "Type"))
                  => deref.item = [raised |-> "", result |-> GetItem(obj.body, "Type")]

\* C8: every font used has one Font dictionary in the document; a page has one
\* alias per font it used, F1, F2, ... in the order of first use on that page,
\* and the page's Resources/Font entry under the alias is the reference of
\* the document's Font dictionary for that font.
C8_FontSharing ==
    LET objs == pdf_document.objects
        font_objs == {i \in 1..Len(objs) : objs[i].cls = "Font"}
    IN  /\ \A f \in DOMAIN fonts :
              /\ fonts[f] \in font_objs
              /\ GetItem(objs[fonts[f]].body, "BaseFont") = Name(f.ps_name)
        /\ \A f, g \in DOMAIN fonts : fonts[f] = fonts[g] => f = g
        /\ Cardinality(font_objs) = Cardinality(DOMAIN fonts)
        /\ \A p \in 1..Len(pages) :
              LET used == DOMAIN pages[p].font_names
                  rsc == GetItem(objs[pages[p].pdf_page].body, "Resources")
              IN  /\ used \subseteq DOMAIN fonts
                  /\ {pages[p].font_names[f] : f \in used}
                        = {FontName(n) : n \in 1..Cardinality(used)}
                  /\ HasKey(rsc, "Font") <=> used # {}
                  /\ used # {} =>
                        /\ Len(GetItem(rsc, "Font").v) = Cardinality(used)
                        /\ \A f \in used :
                              /\ HasKey(GetItem(rsc, "Font"), pages[p].font_names[f])
                              /\ GetItem(GetItem(rsc, "Font"), pages[p].font_names[f])
                                    = objs[fonts[f]].reference

\* C8's case: two pages used the same font, each under its own F1, and one of
\* them a second font under F2
C8_Witness ==
    /\ Len(pages) >= 2
    /\ Helvetica \in DOMAIN pages[1].font_names
    /\ DOMAIN pages[2].font_names = {Helvetica, TimesRoman}
    /\ pages[1].font_names[Helvetica] = "F1"
    /\ pages[2].font_names[TimesRoman] = "F1"
    /\ pages[2].font_names[Helvetica] = "F2"
    /\ last.op = "register_font" /\ last.raised = ""

\* C9: the file never holds part of an output: it is empty or holds the whole
\* output of a write that ran to its end.
C9_AtomicWrite ==
    disk.exists =>
        \/ disk.data = <<>>
        \/ \E i \in Completed : written[i].out = disk.data

\* C10: show_glyphs with glyphs and displacements of different lengths raises
\* and appends nothing to the canvas.
C10_MismatchAborts ==
    (last.op = "show_glyphs" /\ last.glyphs # last.x_displacements)
        => (last.raised # "" /\ last.appended = <<>>)

\* C11: the page tree is consistent after any sequence of new_page calls:
\* the Pages dictionary's Count is the length of Kids and the number of
\* new_page calls (each call registers one Page, and nothing else registers
\* one); Kids holds the references of the Pages' Page objects in creation
\* order, none twice; every Page's Parent is the reference of the Pages
\* node, and so is the Catalog's Pages entry.
C11_PageTreeConsistency ==
    LET objs == pdf_document.objects
        node == objs[pdf_document.pages]
        kids == GetItem(node.body, "Kids").v
        created == {i \in 1..Len(objs) : objs[i].cls = "Page"}
    IN  /\ node.cls = "Pages"
        /\ GetItem(node.body, "Count") = Integer(Len(kids))
        /\ Len(kids) = Cardinality(created)
        /\ \A k \in 1..Len(kids) :
              /\ kids[k].t = "Reference"
              /\ kids[k].v[1] \in created
              /\ kids[k] = objs[kids[k].v[1]].reference
        /\ \A j, k \in 1..Len(kids) :
              /\ j < k => kids[j].v[1] < kids[k].v[1]
              /\ j # k => kids[j] # kids[k]
        /\ \A i \in created :
              /\ HasKey(objs[i].body, "Parent")
              /\ GetItem(objs[i].body, "Parent") = node.reference
        /\ objs[pdf_document.catalog].cls = "Catalog"
        /\ HasKey(objs[pdf_document.catalog].body, "Pages")
        /\ GetItem(objs[pdf_document.catalog].body, "Pages") = node.reference

\* C11's case: new_page was called at least twice, with another object
\* registered between two of the calls
C11_Witness ==
    LET kids == GetItem(pdf_document.objects[pdf_document.pages].body, "Kids").v
    IN  /\ Len(kids) >= 2
        /\ \E k \in 1..Len(kids) - 1 : kids[k + 1].v[1] > kids[k].v[1] + 1

====
